---- MODULE Spec2Model ----
(***************************************************************************)
(* InfluxDBStore of appdash (src/influxdb_store.go): Collect merges the    *)
(* annotations of a span into the point stored for its (trace, span,       *)
(* parent) tags, Trace reads the points of one trace back and assembles    *)
(* them into a tree with addChildren.                                      *)
(*                                                                         *)
(* Strings are sequences of tokens: a token is a run of characters that no *)
(* operation of the store looks inside ("_schema:", "HTTPClient", ",").    *)
(* Splitting, joining and prefix tests work on the tokens as the Go string *)
(* functions work on characters.                                           *)
(***************************************************************************)
EXTENDS Integers, Sequences, FiniteSets, TLC

VARIABLES store,    \* the points of measurement "spans" held by InfluxDB
          now,      \* the wall clock read by time.Now()
          last,     \* the last call made on the store, its locals and result
          inflight  \* the Collect calls running side by side, and their locals

vars == <<store, now, last, inflight>>

----------------------------------------------------------------------------
(* Bounds of the model.                                                    *)

MaxAnns == 2    \* annotations in one Collect call
MaxCalls == 2   \* Collect calls in one behaviour
MaxSpans == 3   \* spans stored in the tree specification

----------------------------------------------------------------------------
(* Strings.                                                                *)

schemaPrefix == <<"_schema:">>
schemasFieldName == <<"schemas">>
schemasFieldSeparator == ","
timeFieldName == <<"time">>

\* A JSON null of a query result: the Go value nil, which is no string.
NULL == <<"<nil>">>

\* A JSON number of a query result: a Go float64, which is no string.
Number(n) == <<"<float64>", n>>
IsNumber(v) == Len(v) = 2 /\ v[1] = "<float64>"

HasPrefix(s, prefix) ==
    /\ Len(s) >= Len(prefix)
    /\ SubSeq(s, 1, Len(prefix)) = prefix

\* s[len(prefix):]
TrimPrefix(s, prefix) == SubSeq(s, Len(prefix) + 1, Len(s))

RECURSIVE Join(_, _)
Join(strs, sep) ==
    IF Len(strs) = 0 THEN <<>>
    ELSE IF Len(strs) = 1 THEN strs[1]
    ELSE strs[1] \o <<sep>> \o Join(Tail(strs), sep)

RECURSIVE Split(_, _)
Split(s, sep) ==
    IF \E i \in 1..Len(s) : s[i] = sep
    THEN LET i == CHOOSE j \in 1..Len(s) :
                      /\ s[j] = sep
                      /\ \A h \in 1..(j - 1) : s[h] # sep
         IN  <<SubSeq(s, 1, i - 1)>> \o Split(SubSeq(s, i + 1, Len(s)), sep)
    ELSE <<s>>

Range(f) == {f[i] : i \in DOMAIN f}

\* The orders in which ranging over a Go map can visit the keys S.
RECURSIVE Orders(_)
Orders(S) ==
    IF S = {} THEN {<<>>}
    ELSE UNION {{<<x>> \o f : f \in Orders(S \ {x})} : x \in S}

----------------------------------------------------------------------------
(* Identifiers, times and annotations.                                     *)

\* The identifiers of the model; 0 is the zero identifier.
IDs == 0..3

\* ID.String() and ParseID: the canonical text of an identifier.
IDString(n) == <<"id", n>>
ParseID(s) == s[2]

zeroID == IDString(0)

\* time.RFC3339Nano text of a timestamp, as InfluxDB returns it.
FormatTime(t) == <<"T", ToString(t)>>
ParseTime(s) == CHOOSE t \in 0..(MaxCalls + MaxSpans + 2) : FormatTime(t) = s

\* SpanID{Trace, Span, Parent}
SpanIDOf(t, s, p) == [Trace |-> t, Span |-> s, Parent |-> p]
IsRoot(id) == id.Parent = 0

SchemaKey(name) == schemaPrefix \o <<name>>

\* Annotation{Key, Value}
Ann(k, v) == [Key |-> k, Value |-> v]

\* The field keys of the model in the order InfluxDB lists its columns
\* (by name).
FieldKeyOrder ==
    <<SchemaKey("HTTPClient"), SchemaKey("HTTPServer"), <<"k">>, <<"n">>,
      schemasFieldName>>

----------------------------------------------------------------------------
(* InfluxDB: a point is identified by its tags and its time; writing a     *)
(* point that exists adds the written fields to it, the written value      *)
(* replacing the stored one.                                               *)

TagsOf(id) ==
    [trace_id |-> IDString(id.Trace),
     span_id |-> IDString(id.Span),
     parent_id |-> IDString(id.Parent)]

Extend(new, old) ==
    [k \in (DOMAIN new) \cup (DOMAIN old) |->
        IF k \in DOMAIN new THEN new[k] ELSE old[k]]

\* in.con.Write(bps) of one point
Write(st, pt) ==
    IF \E q \in st : q.tags = pt.tags /\ q.time = pt.time
    THEN LET q == CHOOSE x \in st : x.tags = pt.tags /\ x.time = pt.time
         IN  (st \ {q}) \cup {[q EXCEPT !.fields = Extend(pt.fields, q.fields)]}
    ELSE st \cup {pt}

\* The columns of "SELECT *": time, then every field key of the measurement.
Columns(st) ==
    LET keys == UNION {DOMAIN q.fields : q \in st}
    IN  <<timeFieldName>> \o SelectSeq(FieldKeyOrder, LAMBDA k : k \in keys)

RECURSIVE ByTime(_)
ByTime(pts) ==
    IF pts = {} THEN <<>>
    ELSE LET q == CHOOSE x \in pts : \A y \in pts : x.time <= y.time
         IN  <<q>> \o ByTime(pts \ {q})

\* One series of a "GROUP BY *" result: the points of one tag set, one row of
\* values per point, a null where the point has no value for the column.
Row(st, tags) ==
    LET cols == Columns(st)
        pts == ByTime({q \in st : q.tags = tags})
    IN  [Tags |-> tags,
         Columns |-> cols,
         Values |-> [n \in 1..Len(pts) |->
                        [i \in 1..Len(cols) |->
                            IF cols[i] = timeFieldName THEN FormatTime(pts[n].time)
                            ELSE IF cols[i] \in DOMAIN pts[n].fields
                                 THEN pts[n].fields[cols[i]]
                                 ELSE NULL]]]

\* The tag sets of the series that hold a point of the set pts.
SeriesTags(pts) == {q.tags : q \in pts}

\* WHERE on the trace id alone.
WhereSpan_TraceOnly(st, ID) == {q \in st : q.tags.trace_id = IDString(ID.Trace)}

\* WHERE trace_id = ID.Trace AND span_id = ID.Span AND parent_id = ID.Parent
WhereSpan(st, ID) ==
    {q \in st : /\ q.tags.trace_id = IDString(ID.Trace)
                /\ q.tags.span_id = IDString(ID.Span)
                /\ q.tags.parent_id = IDString(ID.Parent)}

\* WHERE trace_id = id
WhereTrace(st, id) == {q \in st : q.tags.trace_id = IDString(id)}

----------------------------------------------------------------------------
(* Collect.                                                                *)

\* The result of findSpanPoint when no point is stored: the nil *Point.
NoPoint == [found |-> FALSE, Time |-> 0, Fields |-> <<>>]

\* A field of the first row is a string, a null where the point has no value
\* for the column, or a value of another type that a writer other than
\* Collect stored.
findSpanPoint(st, ID) ==
    LET series == {Row(st, tags) : tags \in SeriesTags(WhereSpan(st, ID))}
    IN  IF series = {} THEN [err |-> "", p |-> NoPoint]
        ELSE IF Cardinality(series) > 1
             THEN [err |-> "unexpected multiple series", p |-> NoPoint]
        ELSE LET r == CHOOSE x \in series : TRUE
             IN  IF Len(r.Values) = 0
                 THEN [err |-> "unexpected empty series", p |-> NoPoint]
                 ELSE LET fields == r.Values[1]
                          set == {i \in 1..Len(fields) : fields[i] # NULL}
                          at(k) == CHOOSE i \in set : r.Columns[i] = k
                      IN  IF \E i \in set : IsNumber(fields[i])
                          THEN [err |-> "unexpected field type", p |-> NoPoint]
                          ELSE
                          [err |-> "",
                           p |-> [found |-> TRUE,
                                  Time |-> ParseTime(fields[at(timeFieldName)]),
                                  Fields |-> [k \in {r.Columns[i] : i \in set} |->
                                                 fields[at(k)]]]]

\* fields[ann.Key] = string(ann.Value), for each annotation in turn
FieldsOf(anns) ==
    [k \in {anns[i].Key : i \in 1..Len(anns)} |->
        LET i == CHOOSE j \in 1..Len(anns) :
                      /\ anns[j].Key = k
                      /\ \A h \in (j + 1)..Len(anns) : anns[h].Key # k
        IN  anns[i].Value]

\* withoutEmptyFields that keeps every field.
withoutEmptyFields_KeepsEmpty(pf) == pf

withoutEmptyFields(pf) ==
    [k \in {x \in DOMAIN pf : pf[x] # <<>> /\ pf[x] # NULL} |-> pf[k]]

\* extendFields that leaves dst as submitted.
extendFields_NewWins(dst, src) == dst

extendFields(dst, src) ==
    [k \in DOMAIN dst |-> IF k \in DOMAIN src THEN src[k] ELSE dst[k]]

schemasFromAnnotations(anns) ==
    LET prefixed == SelectSeq(anns, LAMBDA a : HasPrefix(a.Key, schemaPrefix))
    IN  Join([i \in 1..Len(prefixed) |-> TrimPrefix(prefixed[i].Key, schemaPrefix)],
             schemasFieldSeparator)

\* mergeSchemasField that returns the schemas of new alone.
mergeSchemasField_DropsOld(new, old) ==
    LET schemas == IF new = <<>> THEN {} ELSE Range(Split(new, schemasFieldSeparator))
    IN  {Join(result, schemasFieldSeparator) : result \in Orders(schemas)}

\* The strings mergeSchemasField can return: the schemas of new and old, each
\* once, joined in the order ranging over the map visits them. old is a
\* string or, when the point has no manifest, nil.
mergeSchemasField(new, old) ==
    LET strFields == SelectSeq(<<new, old>>, LAMBDA f : f # NULL)
        schemas == UNION {Range(Split(strFields[i], schemasFieldSeparator)) :
                             i \in {j \in 1..Len(strFields) : strFields[j] # <<>>}}
    IN  {Join(result, schemasFieldSeparator) : result \in Orders(schemas)}

\* p.Fields[schemasFieldName], nil when the map has no such key
SchemasField(p) ==
    IF schemasFieldName \in DOMAIN p.Fields THEN p.Fields[schemasFieldName] ELSE NULL

\* The manifests Collect can give the point it writes.
CollectSchemas(p, anns) ==
    IF p.found
    THEN mergeSchemasField(schemasFromAnnotations(anns), SchemasField(p))
    ELSE {schemasFromAnnotations(anns)}

\* Collect that stamps every point it writes with the current time.
CollectTime_Now(p, t) == t

\* The time of the point Collect writes.
CollectTime(p, t) == IF p.found THEN p.Time ELSE t

\* The point Collect writes for id and anns, p being the point found, t the
\* time and schemas the manifest.
CollectPoint(p, id, anns, t, schemas) ==
    LET fields == FieldsOf(anns)
        merged == IF p.found
                  THEN extendFields(fields, withoutEmptyFields(p.Fields))
                  ELSE fields
    IN  [tags |-> TagsOf(id),
         time |-> CollectTime(p, t),
         fields |-> Extend([k \in {schemasFieldName} |-> schemas], merged)]

NoResult == [root |-> SpanIDOf(0, 0, 0), sub |-> <<>>, anns |-> <<>>,
             children |-> <<>>, tries |-> 0]

\* No point handed to in.con.Write.
NoWrite == [wrote |-> FALSE, time |-> 0, fields |-> <<>>]

\* The nil *Trace or []*Trace a call returns with an error.
NilTraces == [nil |-> TRUE, traces |-> <<>>]

\* A call: for Collect its id, the fields and the manifest it makes of anns,
\* the point p it finds and the point it hands to Write; for Trace and
\* Traces the id, what is assembled and the value returned.
NoCall == [op |-> "none", id |-> SpanIDOf(0, 0, 0), fields |-> <<>>,
           schemas |-> <<>>, err |-> "", p |-> NoPoint, res |-> NoResult,
           written |-> NoWrite, ret |-> NilTraces]

\* The Collect calls that run side by side: none.
Procs == {1, 2}

Idle == [pc |-> "idle", id |-> SpanIDOf(0, 0, 0), anns |-> <<>>, p |-> NoPoint]

NoFlight == [base |-> {}, steps |-> <<>>, proc |-> [i \in Procs |-> Idle]]

\* Collect that writes its point whatever findSpanPoint returned.
WritesAfter_Always(r) == TRUE

\* Collect goes on to write when findSpanPoint returned no error.
WritesAfter(r) == r.err = ""

\* Collect(id, anns) from the return of findSpanPoint, r, on.
CollectAfter(id, anns, r) ==
    /\ now' = now + 1
    /\ UNCHANGED inflight
    /\ IF ~WritesAfter(r)
       THEN /\ store' = store
            /\ last' = [NoCall EXCEPT !.op = "Collect", !.id = id,
                                      !.fields = FieldsOf(anns),
                                      !.schemas = schemasFromAnnotations(anns),
                                      !.err = r.err]
       ELSE \E schemas \in CollectSchemas(r.p, anns) :
                LET pt == CollectPoint(r.p, id, anns, now, schemas)
                IN  /\ store' = Write(store, pt)
                    /\ last' = [NoCall EXCEPT !.op = "Collect", !.id = id,
                                              !.fields = FieldsOf(anns),
                                              !.schemas = schemasFromAnnotations(anns),
                                              !.err = r.err,
                                              !.p = r.p,
                                              !.written = [wrote |-> TRUE,
                                                           time |-> pt.time,
                                                           fields |-> pt.fields]]

Collect(id, anns) == CollectAfter(id, anns, findSpanPoint(store, id))

\* findSpanPoint when executeOneQuery returns an error.
QueryFailed == [err |-> "query failed", p |-> NoPoint]

\* What findSpanPoint can return when the query can fail.
LookupResults(st, ID) == {findSpanPoint(st, ID), QueryFailed}

\* Collect on a connection whose queries can fail.
CollectOrFail(id, anns) ==
    \E r \in LookupResults(store, id) : CollectAfter(id, anns, r)

\* Collect that looks its point up again when it comes to write.
FoundPoint_Reread(st, c) == findSpanPoint(st, c.id).p

\* The point p that Collect merges into what it writes: the one its lookup
\* returned, whatever the store st holds by now.
FoundPoint(st, c) == c.p

\* The first step of call i of Collect(id, anns): the query of findSpanPoint.
\* base is the store when the first of the calls looked up.
CollectLookup(i, id, anns) ==
    LET r == findSpanPoint(store, id)
    IN  /\ inflight.proc[i].pc = "idle"
        /\ inflight' =
               [base |-> IF inflight.steps = <<>> THEN store ELSE inflight.base,
                steps |-> Append(inflight.steps, <<i, "lookup">>),
                proc |-> [inflight.proc EXCEPT ![i] =
                             [pc |-> IF WritesAfter(r) THEN "write" ELSE "done",
                              id |-> id, anns |-> anns, p |-> r.p]]]
        /\ UNCHANGED <<store, now, last>>

\* The second step of call i: the point is made and handed to in.con.Write.
CollectWrite(i) ==
    LET c == inflight.proc[i]
        p == FoundPoint(store, c)
    IN  /\ c.pc = "write"
        /\ \E schemas \in CollectSchemas(p, c.anns) :
               store' = Write(store, CollectPoint(p, c.id, c.anns, now, schemas))
        /\ now' = now + 1
        /\ inflight' = [inflight EXCEPT !.steps = Append(@, <<i, "write">>),
                                        !.proc[i].pc = "done"]
        /\ UNCHANGED last

----------------------------------------------------------------------------
(* Decoding a row into a span.                                             *)

\* annotationsFromRow that goes on to the next field at a null.
annotationsFromRow_SkipsNull(r) ==
    IF Len(r.Values) > 1
    THEN [err |-> "unexpected multiple row values", anns |-> <<>>]
    ELSE LET fields == IF Len(r.Values) = 1 THEN r.Values[1] ELSE <<>>
             set == {i \in 1..Len(fields) : fields[i] # NULL}
             all == [i \in 1..Len(fields) |-> Ann(r.Columns[i], fields[i])]
         IN  IF \E i \in set : IsNumber(fields[i])
             THEN [err |-> "unexpected field type", anns |-> <<>>]
             ELSE [err |-> "", anns |-> SelectSeq(all, LAMBDA a : a.Value # NULL)]

annotationsFromRow(r) ==
    IF Len(r.Values) > 1
    THEN [err |-> "unexpected multiple row values", anns |-> <<>>]
    ELSE LET fields == IF Len(r.Values) = 1 THEN r.Values[1] ELSE <<>>
         IN  IF \E i \in 1..Len(fields) : IsNumber(fields[i])
             THEN [err |-> "unexpected field type", anns |-> <<>>]
             ELSE [err |-> "",
                   anns |-> [i \in 1..Len(fields) |->
                                Ann(r.Columns[i],
                                    IF fields[i] = NULL THEN <<>> ELSE fields[i])]]

\* The nil *Annotation.
NoAnnotation == Ann(<<>>, NULL)

findSchemasAnnotation(anns) ==
    IF \E i \in 1..Len(anns) : anns[i].Key = schemasFieldName
    THEN anns[CHOOSE i \in 1..Len(anns) :
                  /\ anns[i].Key = schemasFieldName
                  /\ \A h \in 1..(i - 1) : anns[h].Key # schemasFieldName]
    ELSE NoAnnotation

\* schemaExists that finds every schema.
schemaExists_Always(schema, schemas) == TRUE

schemaExists(schema, schemas) == \E i \in 1..Len(schemas) : schema = schemas[i]

\* Reading schemasAnn.Value panics when anns has no manifest annotation;
\* newSpanFromRow below reports that case.
filterSchemas(anns) ==
    LET schemasAnn == findSchemasAnnotation(anns)
        schemas == Split(schemasAnn.Value, schemasFieldSeparator)
    IN  SelectSeq(anns, LAMBDA a :
            IF HasPrefix(a.Key, schemaPrefix)
            THEN schemaExists(TrimPrefix(a.Key, schemaPrefix), schemas)
            ELSE TRUE)

\* UnmarshalEvents and MarshalEvent are not part of influxdb_store.go; the
\* decoded fields become the span's annotations one to one.
annotationsFromEvents(a) == [err |-> "", anns |-> a]

newSpanFromRow(r) ==
    LET ID == SpanIDOf(ParseID(r.Tags.trace_id), ParseID(r.Tags.span_id),
                       ParseID(r.Tags.parent_id))
        annotations == annotationsFromRow(r)
    IN  IF annotations.err # ""
        THEN [err |-> annotations.err, ID |-> ID, Annotations |-> <<>>]
        ELSE IF findSchemasAnnotation(annotations.anns) = NoAnnotation
        THEN [err |-> "panic: nil pointer dereference", ID |-> ID, Annotations |-> <<>>]
        ELSE LET anns == annotationsFromEvents(filterSchemas(annotations.anns))
             IN  [err |-> anns.err, ID |-> ID, Annotations |-> anns.anns]

----------------------------------------------------------------------------
(* Assembling a trace. A node of the tree is named by the SpanID of its    *)
(* span; sub[n] is the Sub slice of node n.                                *)

\* The nil *Trace.
NoTrace == SpanIDOf(0 - 1, 0 - 1, 0 - 1)

RECURSIVE walkToParent(_, _, _), walkSubs(_, _, _, _)
walkToParent(sub, root, child) ==
    IF root.Span = child.Parent THEN root ELSE walkSubs(sub, root, child, 1)

\* The loop of walkToParent over root.Sub, from its i-th element on.
walkSubs(sub, root, child, i) ==
    IF i > Len(sub[root]) THEN NoTrace
    ELSE LET s == sub[root][i]
         IN  IF s.Span = child.Parent THEN s
             ELSE LET r == walkToParent(sub, s, child)
                  IN  IF r # NoTrace THEN r ELSE walkSubs(sub, root, child, i + 1)

\* findTraceParent that looks at the root alone.
findTraceParent_RootOnly(sub, root, child) ==
    IF root.Span = child.Parent THEN root ELSE NoTrace

\* findTraceParent that takes the root for the parent of every child.
findTraceParent_AlwaysRoot(sub, root, child) == root

findTraceParent(sub, root, child) == walkToParent(sub, root, child)

\* children[:i] followed by children[i+1:], i counted from 1
RemoveAt(children, i) ==
    SubSeq(children, 1, i - 1) \o SubSeq(children, i + 1, Len(children))

\* One pass of addFn from index i down to the first child.
RECURSIVE addFn(_, _, _, _)
addFn(sub, root, children, i) ==
    IF i < 1 THEN [sub |-> sub, children |-> children]
    ELSE LET child == children[i]
             t == findTraceParent(sub, root, child)
         IN  IF t # NoTrace
             THEN addFn([sub EXCEPT ![t] = Append(@, child)], root,
                        RemoveAt(children, i), i - 1)
             ELSE addFn(sub, root, children, i - 1)

\* addChildren that allows one pass less.
Retries_OneLess(children) == Len(children) - 1

\* addChildren that allows one pass more.
Retries_OneMore(children) == Len(children) + 1

\* The number of passes addChildren allows.
Retries(children) == Len(children)

\* The loop of addChildren, after try passes.
RECURSIVE addLoop(_, _, _, _, _)
addLoop(sub, root, children, try, retries) ==
    IF Len(children) = 0 THEN [err |-> "", sub |-> sub, tries |-> try]
    ELSE IF try = retries
         THEN [err |-> "maximum number of retries", sub |-> sub, tries |-> try]
    ELSE LET r == addFn(sub, root, children, Len(children))
         IN  addLoop(r.sub, root, r.children, try + 1, retries)

addChildren(root, children) ==
    addLoop([n \in {root} \cup Range(children) |-> <<>>], root, children, 0,
            Retries(children))

----------------------------------------------------------------------------
(* Trace.                                                                  *)

\* Trace that lets a later root span replace the one it has.
MultipleRoots_Never(span, rootSpanSet) == FALSE

\* span.ID.IsRoot() && rootSpanSet
MultipleRoots(span, rootSpanSet) == IsRoot(span.ID) /\ rootSpanSet

\* The loop of Trace over result.Series from the i-th series on; root is the
\* zero Span until a root span is met.
RECURSIVE traceLoop(_, _, _, _, _, _)
traceLoop(series, i, rootSpanSet, root, children, anns) ==
    IF i > Len(series)
    THEN [err |-> "", root |-> root, children |-> children, anns |-> anns]
    ELSE LET span == newSpanFromRow(series[i])
         IN  IF span.err # ""
             THEN [err |-> span.err, root |-> root, children |-> children,
                   anns |-> anns]
             ELSE IF MultipleRoots(span, rootSpanSet)
             THEN [err |-> "unexpected multiple root spans", root |-> root,
                   children |-> children, anns |-> anns]
             ELSE LET seen == Extend([n \in {span.ID} |-> span.Annotations], anns)
                  IN  IF IsRoot(span.ID)
                      THEN traceLoop(series, i + 1, TRUE, span.ID, children, seen)
                      ELSE traceLoop(series, i + 1, rootSpanSet, root,
                                     Append(children, span.ID), seen)

\* Trace(id), series being result.Series in the order InfluxDB returned it.
TraceOf(series) ==
    IF Len(series) = 0
    THEN [err |-> "trace not found", res |-> NoResult]
    ELSE LET l == traceLoop(series, 1, FALSE, SpanIDOf(0, 0, 0), <<>>, <<>>)
         IN  IF l.err # "" THEN [err |-> l.err, res |-> NoResult]
             ELSE LET a == addChildren(l.root, l.children)
                  IN  [err |-> a.err,
                       res |-> [root |-> l.root, sub |-> a.sub, anns |-> l.anns,
                                children |-> l.children, tries |-> a.tries]]

\* The orders in which the query of Trace can return the series of trace id.
TraceOrders(st, id) ==
    Orders(SeriesTags(WhereTrace(st, id)))

\* result.Series of the query of Trace, the series coming in the given order.
TraceSeries(st, order) == [i \in 1..Len(order) |-> Row(st, order[i])]

\* Trace that returns the tree it has, also with an error.
Returned_Partial(err, traces) == [nil |-> FALSE, traces |-> traces]

\* The value Trace and Traces return next to err: nil with an error, else
\* the traces assembled.
Returned(err, traces) ==
    IF err # "" THEN NilTraces ELSE [nil |-> FALSE, traces |-> traces]

\* The *Trace of root with the Sub slices sub.
TreeOf(root, sub) == [root |-> root, sub |-> sub]

Trace(id) ==
    \E order \in TraceOrders(store, id) :
        LET t == TraceOf(TraceSeries(store, order))
        IN  /\ last' = [NoCall EXCEPT !.op = "Trace", !.id = SpanIDOf(id, 0, 0),
                                      !.err = t.err, !.res = t.res,
                                      !.ret = Returned(t.err,
                                                  <<TreeOf(t.res.root, t.res.sub)>>)]
            /\ UNCHANGED <<store, now, inflight>>

----------------------------------------------------------------------------
(* Traces.                                                                 *)

defaultTracesPerPage == 10

\* LIMIT n under GROUP BY *: the first n points of the series.
Limit(r, n) ==
    [r EXCEPT !.Values = SubSeq(@, 1, IF Len(@) < n THEN Len(@) ELSE n)]

\* WHERE parent_id = zeroID
WhereRoots(st) == {q \in st : q.tags.parent_id = zeroID}

\* The second query of Traces asking for the records directly under a root
\* only.
WhereChildren_DirectOnly(st, ids) ==
    {q \in st : \E r \in WhereRoots(st) :
                    /\ ParseID(r.tags.trace_id) \in ids
                    /\ q.tags.trace_id = r.tags.trace_id
                    /\ q.tags.parent_id = r.tags.span_id}

\* WHERE (trace_id = t AND parent_id != zeroID) OR ..., t over the trace ids
\* of tracesCache
WhereChildren(st, ids) ==
    {q \in st : /\ \E t \in ids : q.tags.trace_id = IDString(t)
                /\ q.tags.parent_id # zeroID}

\* Traces that lets a later root span of a trace replace the one cached.
DuplicatedRoot_Never(span, tracesCache) == FALSE

\* _, present := tracesCache[span.ID.Trace]
DuplicatedRoot(span, tracesCache) == span.ID.Trace \in DOMAIN tracesCache

\* The first loop of Traces, over rootSpansResult.Series from the i-th
\* series on; tracesCache maps a trace id to its root.
RECURSIVE rootsLoop(_, _, _, _)
rootsLoop(series, i, tracesCache, anns) ==
    IF i > Len(series)
    THEN [err |-> "", tracesCache |-> tracesCache, anns |-> anns]
    ELSE LET span == newSpanFromRow(series[i])
         IN  IF span.err # ""
             THEN [err |-> span.err, tracesCache |-> tracesCache, anns |-> anns]
             ELSE IF DuplicatedRoot(span, tracesCache)
             THEN [err |-> "duplicated root span", tracesCache |-> tracesCache,
                   anns |-> anns]
             ELSE rootsLoop(series, i + 1,
                            Extend([t \in {span.ID.Trace} |-> span.ID], tracesCache),
                            Extend([n \in {span.ID} |-> span.Annotations], anns))

\* The second loop of Traces, over childrenSpansResult.Series from the i-th
\* series on; children maps a trace id to the children read for it.
RECURSIVE childrenLoop(_, _, _, _, _)
childrenLoop(series, i, tracesCache, children, anns) ==
    IF i > Len(series)
    THEN [err |-> "", children |-> children, anns |-> anns]
    ELSE LET span == newSpanFromRow(series[i])
             t == span.ID.Trace
         IN  IF span.err # ""
             THEN [err |-> span.err, children |-> children, anns |-> anns]
             ELSE IF t \notin DOMAIN tracesCache
             THEN [err |-> "parent not found", children |-> children, anns |-> anns]
             ELSE childrenLoop(series, i + 1, tracesCache,
                      Extend([x \in {t} |->
                                 IF t \in DOMAIN children
                                 THEN Append(children[t], span.ID)
                                 ELSE <<span.ID>>],
                             children),
                      Extend([n \in {span.ID} |-> span.Annotations], anns))

\* The last loop of Traces, over tracesCache in the order ranging over the
\* map visits it, from the i-th trace on.
RECURSIVE attachLoop(_, _, _, _, _)
attachLoop(order, i, tracesCache, children, traces) ==
    IF i > Len(order) THEN [err |-> "", traces |-> traces]
    ELSE LET trace == tracesCache[order[i]]
         IN  IF order[i] \in DOMAIN children
             THEN LET a == addChildren(trace, children[order[i]])
                  IN  IF a.err # "" THEN [err |-> a.err, traces |-> traces]
                      ELSE attachLoop(order, i + 1, tracesCache, children,
                                      Append(traces, TreeOf(trace, a.sub)))
             ELSE attachLoop(order, i + 1, tracesCache, children,
                             Append(traces, TreeOf(trace, [n \in {trace} |-> <<>>])))

\* rootSpansResult.Series and childrenSpansResult.Series, the series coming
\* in the given order.
RootSeries(st, order) ==
    [i \in 1..Len(order) |-> Limit(Row(st, order[i]), defaultTracesPerPage)]

ChildrenSeries(st, order) == [i \in 1..Len(order) |-> Row(st, order[i])]

\* What Traces leaves in last: its error, the annotations decoded and the
\* value returned.
TracesCall(err, anns, traces) ==
    [NoCall EXCEPT !.op = "Traces", !.err = err,
                   !.res = [NoResult EXCEPT !.anns = anns],
                   !.ret = Returned(err, traces)]

Traces ==
    /\ UNCHANGED <<store, now, inflight>>
    /\ \E rootOrder \in Orders(SeriesTags(WhereRoots(store))) :
          IF Len(rootOrder) = 0
          THEN last' = TracesCall("", <<>>, <<>>)
          ELSE LET roots == rootsLoop(RootSeries(store, rootOrder), 1, <<>>, <<>>)
               IN  IF roots.err # ""
                   THEN last' = TracesCall(roots.err, roots.anns, <<>>)
                   ELSE \E childOrder \in Orders(SeriesTags(
                                WhereChildren(store, DOMAIN roots.tracesCache))) :
                          LET read == childrenLoop(ChildrenSeries(store, childOrder), 1,
                                          roots.tracesCache, <<>>, roots.anns)
                          IN  IF read.err # ""
                              THEN last' = TracesCall(read.err, read.anns, <<>>)
                              ELSE \E order \in Orders(DOMAIN roots.tracesCache) :
                                     LET a == attachLoop(order, 1, roots.tracesCache,
                                                         read.children, <<>>)
                                     IN  last' = TracesCall(a.err, read.anns, a.traces)

----------------------------------------------------------------------------
(* The store under Collect and Trace calls.                                *)

\* The annotations a call can submit: three values of a key k and the
\* schema marker of an event.
AnnPool ==
    {Ann(<<"k">>, <<"v1">>), Ann(<<"k">>, <<"v2">>), Ann(<<"k">>, <<>>),
     Ann(SchemaKey("HTTPClient"), <<>>)}

\* The schema markers of two events.
SchemaPool == {Ann(SchemaKey("HTTPClient"), <<>>), Ann(SchemaKey("HTTPServer"), <<>>)}

Lists(pool) == UNION {[1..n -> pool] : n \in 0..MaxAnns}

\* A root span and its child.
CollectIDs == {SpanIDOf(1, 1, 0), SpanIDOf(1, 2, 1)}

\* The spans of trace 1, of every shape: roots, children, orphans, cycles.
TreeIDs == {SpanIDOf(1, s, p) : s \in IDs \ {0}, p \in IDs}

IDOfTags(tags) ==
    SpanIDOf(ParseID(tags.trace_id), ParseID(tags.span_id), ParseID(tags.parent_id))

\* The spans of a trace arrive in the order of Rank; which of them arrive is
\* free, and Trace reads them back in every order.
Rank(id) == id.Span * Cardinality(IDs) + id.Parent

TraceIDs == {1, 2}

Init ==
    /\ store = {}
    /\ now = 1
    /\ last = NoCall
    /\ inflight = NoFlight

CollectCall ==
    /\ now <= MaxCalls
    /\ \E id \in CollectIDs, anns \in Lists(AnnPool) : Collect(id, anns)

TraceCall == \E id \in TraceIDs : Trace(id)

Next == CollectCall \/ TraceCall

Spec == Init /\ [][Next]_vars

\* Calls that submit schema markers only.
CollectSchemasCall ==
    /\ now <= MaxCalls
    /\ \E id \in CollectIDs, anns \in Lists(SchemaPool) : Collect(id, anns)

NextSchemas == CollectSchemasCall \/ TraceCall

SpecSchemas == Init /\ [][NextSchemas]_vars

\* Spans collected without annotations, read back as a tree.
CollectSpan ==
    /\ Cardinality(store) < MaxSpans
    /\ \E id \in TreeIDs :
           /\ \A q \in store : Rank(IDOfTags(q.tags)) < Rank(id)
           /\ Collect(id, <<>>)

NextTree == CollectSpan \/ TraceCall

SpecTree == Init /\ [][NextTree]_vars

\* The spans of two traces: roots, children, a child that is its own parent.
PageIDs == {SpanIDOf(t, s, p) : t \in {1, 2}, s \in {1, 2}, p \in {0, 1, 2}}

\* Spans of two traces collected without annotations, read back one trace
\* at a time and as a page of traces.
CollectPageSpan ==
    /\ Cardinality(store) < MaxSpans
    /\ \E id \in PageIDs :
           /\ \A q \in store :
                  LET x == IDOfTags(q.tags)
                  IN  \/ x.Trace < id.Trace
                      \/ x.Trace = id.Trace /\ Rank(x) < Rank(id)
           /\ Collect(id, <<>>)

NextTraces == CollectPageSpan \/ TraceCall \/ Traces

SpecTraces == Init /\ [][NextTraces]_vars

\* The annotation lists of the calls that run side by side: none, and two
\* events that give the key k different values.
CallLists ==
    {<<>>,
     <<Ann(<<"k">>, <<"v1">>), Ann(SchemaKey("HTTPClient"), <<>>)>>,
     <<Ann(<<"k">>, <<"v2">>), Ann(SchemaKey("HTTPServer"), <<>>)>>}

\* Calls made one after the other, before any two run side by side.
CollectBefore ==
    /\ inflight = NoFlight
    /\ now < MaxCalls
    /\ \E id \in CollectIDs, anns \in CallLists : Collect(id, anns)

\* Two goroutines make one call of Collect each; their steps interleave.
LookupStep == \E i \in Procs, id \in CollectIDs, anns \in CallLists : CollectLookup(i, id, anns)

WriteStep == \E i \in Procs : CollectWrite(i)

\* The points another writer of the measurement can store for the triple of
\* id at time t: one with a field that is a number, in the series of id, and
\* one in a series of its own, which has a tag more.
ForeignPoints(id, t) ==
    {[tags |-> TagsOf(id), time |-> t, fields |-> [k \in {<<"n">>} |-> Number(1)]],
     [tags |-> [trace_id |-> IDString(id.Trace), span_id |-> IDString(id.Span),
                parent_id |-> IDString(id.Parent), host |-> <<"h">>],
      time |-> t,
      fields |-> [k \in {<<"n">>} |-> Number(1)]]}

ForeignWrite ==
    /\ now <= MaxCalls
    /\ \E id \in CollectIDs :
           \E pt \in ForeignPoints(id, now) : store' = Write(store, pt)
    /\ now' = now + 1
    /\ last' = [NoCall EXCEPT !.op = "ForeignWrite"]
    /\ UNCHANGED inflight

\* Collect on a measurement that another writer shares, over a connection
\* whose queries can fail.
CollectFaulty ==
    /\ now <= MaxCalls + 1
    /\ \E id \in CollectIDs, anns \in CallLists : CollectOrFail(id, anns)

NextFaults == CollectFaulty \/ ForeignWrite

SpecFaults == Init /\ [][NextFaults]_vars

\* The record of a span of the page stored by another writer, with a field
\* that is a number; one such record at most.
ForeignSpan ==
    /\ Cardinality(store) < MaxSpans
    /\ \A q \in store : <<"n">> \notin DOMAIN q.fields
    /\ \E id \in PageIDs :
           /\ \A q \in store :
                  LET x == IDOfTags(q.tags)
                  IN  \/ x.Trace < id.Trace
                      \/ x.Trace = id.Trace /\ Rank(x) < Rank(id)
           /\ \E pt \in ForeignPoints(id, now) :
                  /\ pt.tags = TagsOf(id)
                  /\ store' = Write(store, pt)
    /\ now' = now + 1
    /\ last' = [NoCall EXCEPT !.op = "ForeignWrite"]
    /\ UNCHANGED inflight

\* The page of traces on a measurement that another writer shares.
NextShared == CollectPageSpan \/ ForeignSpan \/ TraceCall \/ Traces

SpecShared == Init /\ [][NextShared]_vars

\* The spans of a trace in which two records have the span id 2, one under
\* the root and one under the root's other child, and a record whose parent
\* id is 2; and the root and a child of a second trace.
TwinIDs ==
    {SpanIDOf(1, 1, 0), SpanIDOf(1, 2, 1), SpanIDOf(1, 3, 1), SpanIDOf(1, 2, 3),
     SpanIDOf(1, 1, 2), SpanIDOf(2, 1, 0), SpanIDOf(2, 2, 1)}

\* What a call submits for a span of TwinIDs: a root may carry the key k.
TwinLists(id) ==
    IF IsRoot(id) THEN {<<>>, <<Ann(<<"k">>, <<"v1">>)>>} ELSE {<<>>}

CollectTwinSpan ==
    /\ Cardinality(store) < MaxSpans + 2
    /\ \E id \in TwinIDs :
           /\ \A q \in store :
                  LET x == IDOfTags(q.tags)
                  IN  \/ x.Trace < id.Trace
                      \/ x.Trace = id.Trace /\ Rank(x) < Rank(id)
           /\ \E anns \in TwinLists(id) : Collect(id, anns)

\* Traces with a repeated span id, read back one at a time and as a page.
NextTwins == CollectTwinSpan \/ TraceCall \/ Traces

SpecTwins == Init /\ [][NextTwins]_vars

NextRace == CollectBefore \/ LookupStep \/ WriteStep

SpecRace == Init /\ [][NextRace]_vars

----------------------------------------------------------------------------
(* What the store holds for a span.                                        *)

PointsOf(st, id) == WhereSpan(st, id)

\* The schemas a manifest lists.
ManifestSchemas(m) ==
    IF m = <<>> \/ m = NULL THEN {} ELSE Range(Split(m, schemasFieldSeparator))

\* The schemas listed by the manifests stored for id.
StoredSchemas(st, id) ==
    UNION {ManifestSchemas(q.fields[schemasFieldName]) : q \in PointsOf(st, id)}

NoDuplicates(strs) == \A i, j \in 1..Len(strs) : i # j => strs[i] # strs[j]

\* The values of the annotations with key k that Trace returns for span id,
\* the series coming in the given order; none when Trace fails.
TraceValues(st, id, order, k) ==
    LET t == TraceOf(TraceSeries(st, order))
    IN  IF t.err # "" \/ id \notin DOMAIN t.res.anns THEN {}
        ELSE {t.res.anns[id][i].Value :
                 i \in {j \in 1..Len(t.res.anns[id]) : t.res.anns[id][j].Key = k}}

\* The last call was a Collect that found a point for its span and wrote.
Rewrote == last.op = "Collect" /\ last.err = "" /\ last.p.found

\* The keys the last Collect submitted over a stored non-empty value.
Overlap ==
    {k \in (DOMAIN last.fields) \cap (DOMAIN last.p.Fields) : last.p.Fields[k] # <<>>}

----------------------------------------------------------------------------
(* Claims.                                                                 *)

\* C1: when the record stored for a span holds a non-empty value v1 for key
\* k, then after a Collect for that span that submits k with any value the
\* store holds v1 for k, and Trace reads k = v1 back for the span.
C1_ExistingValueWins ==
    Rewrote =>
        \A k \in Overlap :
            /\ \A q \in PointsOf(store, last.id) : q.fields[k] = last.p.Fields[k]
            /\ \A order \in TraceOrders(store, last.id.Trace) :
                   TraceValues(store, last.id, order, k) \subseteq {last.p.Fields[k]}

\* A Collect submitted v2 for k over the stored v1, and Trace reads k back.
C1_Witness ==
    /\ Rewrote
    /\ <<"k">> \in Overlap
    /\ last.p.Fields[<<"k">>] = <<"v1">>
    /\ last.fields[<<"k">>] = <<"v2">>
    /\ \E order \in TraceOrders(store, last.id.Trace) :
           TraceValues(store, last.id, order, <<"k">>) = {<<"v1">>}

\* C2: the manifest stored after a Collect lists every schema the call
\* submitted and every schema the manifest listed before; once a Collect has
\* rewritten the record each schema is listed once; and no step takes a
\* schema out of a stored manifest.
C2_ManifestAfterCollect ==
    (last.op = "Collect" /\ last.err = "") =>
        \A q \in PointsOf(store, last.id) :
            /\ ManifestSchemas(last.schemas) \subseteq ManifestSchemas(q.fields[schemasFieldName])
            /\ ManifestSchemas(SchemasField(last.p)) \subseteq
                   ManifestSchemas(q.fields[schemasFieldName])
            /\ last.p.found =>
                   NoDuplicates(Split(q.fields[schemasFieldName], schemasFieldSeparator))

C2_ManifestNeverLoses ==
    \A id \in CollectIDs : StoredSchemas(store, id) \subseteq StoredSchemas(store', id)

C2_ManifestMonotone == [](C2_ManifestAfterCollect) /\ [][C2_ManifestNeverLoses]_vars

\* Collect(id, HTTPClient) was followed by Collect(id, HTTPServer): the
\* manifest lists both.
C2_Witness ==
    /\ Rewrote
    /\ ManifestSchemas(SchemasField(last.p)) = {<<"HTTPClient">>}
    /\ ManifestSchemas(last.schemas) = {<<"HTTPServer">>}
    /\ StoredSchemas(store, last.id) = {<<"HTTPClient">>, <<"HTTPServer">>}

\* Two stores hold the same records: for every span the same points, with
\* the same time and field values and manifests listing the same schemas.
Abstract(q) ==
    [tags |-> q.tags, time |-> q.time,
     fields |-> [k \in (DOMAIN q.fields) \ {schemasFieldName} |-> q.fields[k]],
     schemas |-> ManifestSchemas(q.fields[schemasFieldName])]

Equivalent(st1, st2) == {Abstract(q) : q \in st1} = {Abstract(q) : q \in st2}

\* The step is a Collect that repeats the call before it.
Repeat ==
    /\ last.op = "Collect" /\ last.err = ""
    /\ last'.op = "Collect" /\ last'.err = ""
    /\ now' = now + 1
    /\ last'.id = last.id
    /\ last'.fields = last.fields
    /\ last'.schemas = last.schemas

\* C3: a Collect that repeats the Collect before it, with the same span and
\* the same annotations, leaves the stored records as they were: the same
\* field values and a manifest listing the same schemas.
C3_IdempotentRecollect == [][Repeat => Equivalent(store, store')]_vars

\* A Collect of k and a schema marker was repeated on a stored record.
C3_Witness ==
    /\ Rewrote
    /\ <<"k">> \in DOMAIN last.fields
    /\ last.schemas # <<>>
    /\ DOMAIN last.fields \subseteq DOMAIN last.p.Fields
    /\ \A k \in DOMAIN last.fields : last.p.Fields[k] = last.fields[k]
    /\ last.p.Fields[schemasFieldName] = last.schemas

\* C4: the store holds at most one record for a (trace, span, parent)
\* triple: the first Collect for the triple creates it, and a Collect that
\* finds it leaves one record, with the time the record had.
C4_OneRecordPerTriple ==
    /\ \A id \in CollectIDs : Cardinality(PointsOf(store, id)) <= 1
    /\ (last.op = "Collect" /\ last.err = "") =>
           /\ Cardinality(PointsOf(store, last.id)) = 1
           /\ last.p.found => \A q \in PointsOf(store, last.id) : q.time = last.p.Time

\* A Collect found the record of its triple and wrote, at a later time than
\* the record's.
C4_Witness ==
    /\ Rewrote
    /\ last.p.Time + 1 < now
    /\ Cardinality(PointsOf(store, last.id)) = 1

CallTime == now - 1

\* C17 as stated: the point Collect writes carries the current time, when it
\* rewrites a stored record as when it writes a new one.
C17_RewriteStampedNow ==
    (last.op = "Collect" /\ last.written.wrote) => last.written.time = CallTime

\* C17 as amended: the point Collect writes for a new span carries the
\* current time; the point it writes over a stored record carries the time
\* of that record, which is the time the store keeps for it.
C17_RewriteKeepsTime ==
    (last.op = "Collect" /\ last.written.wrote) =>
        /\ ~last.p.found => last.written.time = CallTime
        /\ last.p.found =>
               /\ last.written.time = last.p.Time
               /\ \A q \in PointsOf(store, last.id) : q.time = last.p.Time

\* A record was rewritten after the clock had moved on from its time.
C17_Witness ==
    /\ Rewrote
    /\ last.written.wrote
    /\ last.written.time < CallTime

\* C18 as stated: no manifest in the store lists a schema twice.
C18_ManifestDeduplicated ==
    \A q \in store :
        NoDuplicates(Split(q.fields[schemasFieldName], schemasFieldSeparator))

----------------------------------------------------------------------------
(* Claims about the tree Trace assembles.                                  *)

\* The last call was a Trace that got as far as addChildren(root, children).
Assembled == last.op = "Trace" /\ last.err \in {"", "maximum number of retries"}

\* The children that parent links among the given records connect to root,
\* R being those connected so far.
RECURSIVE Reachable(_, _, _)
Reachable(root, children, R) ==
    LET more == {c \in Range(children) \ R :
                    \/ c.Parent = root.Span
                    \/ \E r \in R : c.Parent = r.Span}
    IN  IF more = {} THEN R ELSE Reachable(root, children, R \cup more)

ValidTree(root, children) == Reachable(root, children, {}) = Range(children)

\* No two of the records have the same span id.
DistinctSpans(root, children) ==
    \A a, b \in {root} \cup Range(children) : a.Span = b.Span => a = b

\* The places of the tree that hold child c: <<n, i>> when sub[n][i] = c.
Places(sub, c) ==
    UNION {{<<n, i>> : i \in {j \in 1..Len(sub[n]) : sub[n][j] = c}} : n \in DOMAIN sub}

RECURSIVE ByRank(_)
ByRank(S) ==
    IF S = {} THEN <<>>
    ELSE LET x == CHOOSE y \in S : \A z \in S : Rank(y) <= Rank(z)
         IN  <<x>> \o ByRank(S \ {x})

\* addChildren on the children of the last Trace, given in the order of Rank.
Reference == addChildren(last.res.root, ByRank(Range(last.res.children)))

\* C5: addChildren succeeds when every child is connected to the root by
\* parent links among the given records, whatever the order of the list, and
\* fails with "maximum number of retries" when some child is not.
C5_SucceedsIffValidTree ==
    Assembled => (last.err = "" <=> ValidTree(last.res.root, last.res.children))

\* A chain root, child, grandchild that took as many passes as it has
\* children.
C5_Witness ==
    /\ Assembled /\ last.err = ""
    /\ Len(last.res.children) = 2
    /\ last.res.tries = 2

\* C6 as stated: for the records of a valid tree, no two with the same span
\* id, addChildren gives the same tree, Sub slices included, for the order
\* it was given as for the order of Rank.
C6_IdenticalTree ==
    (Assembled /\ ValidTree(last.res.root, last.res.children)
               /\ DistinctSpans(last.res.root, last.res.children)) =>
        /\ last.err = ""
        /\ last.res.sub = Reference.sub

\* C6 as amended: for the records of a valid tree with distinct span ids
\* addChildren succeeds for the order it was given as for the order of Rank,
\* and every node has the same children in both trees, the order of the Sub
\* slices apart.
C6_SameTreeUpToSubOrder ==
    (Assembled /\ ValidTree(last.res.root, last.res.children)
               /\ DistinctSpans(last.res.root, last.res.children)) =>
        /\ last.err = ""
        /\ Reference.err = ""
        /\ DOMAIN last.res.sub = DOMAIN Reference.sub
        /\ \A n \in DOMAIN last.res.sub :
               /\ Range(last.res.sub[n]) = Range(Reference.sub[n])
               /\ Len(last.res.sub[n]) = Len(Reference.sub[n])

\* Two orders of the same children gave trees whose Sub slices differ.
C6_Witness ==
    /\ Assembled /\ last.err = ""
    /\ DistinctSpans(last.res.root, last.res.children)
    /\ last.res.children # ByRank(Range(last.res.children))
    /\ last.res.sub # Reference.sub

\* C7: when Trace succeeds every child record is in the tree once, in the
\* Sub slice of a node whose span id is the child's parent id; a root, its
\* child and its grandchild give root.Sub = [child], child.Sub = [grandchild].
C7_ChildUnderItsParent ==
    (Assembled /\ last.err = "") =>
        /\ \A c \in Range(last.res.children) :
               /\ Cardinality(Places(last.res.sub, c)) = 1
               /\ \A pl \in Places(last.res.sub, c) : pl[1].Span = c.Parent
        /\ (/\ last.res.root = SpanIDOf(1, 1, 0)
            /\ Range(last.res.children) = {SpanIDOf(1, 2, 1), SpanIDOf(1, 3, 2)}) =>
               /\ last.res.sub[SpanIDOf(1, 1, 0)] = <<SpanIDOf(1, 2, 1)>>
               /\ last.res.sub[SpanIDOf(1, 2, 1)] = <<SpanIDOf(1, 3, 2)>>
               /\ last.res.sub[SpanIDOf(1, 3, 2)] = <<>>

\* Trace assembled a root, its child and its grandchild, the grandchild read
\* before the child.
C7_Witness ==
    /\ Assembled /\ last.err = ""
    /\ last.res.root = SpanIDOf(1, 1, 0)
    /\ last.res.children = <<SpanIDOf(1, 3, 2), SpanIDOf(1, 2, 1)>>

\* The children addChildren has left in its list.
Unplaced == {c \in Range(last.res.children) : Places(last.res.sub, c) = {}}

\* C19: addChildren returns after at most as many passes as it was given
\* children, with its list empty and no error or, after exactly that many
\* passes, with children left and "maximum number of retries"; so also when
\* the children form a cycle or have no parent among the records.
C19_AtMostNPasses ==
    Assembled =>
        /\ last.res.tries <= Len(last.res.children)
        /\ last.err = "" => Unplaced = {}
        /\ last.err # "" =>
               /\ Unplaced # {}
               /\ last.res.tries = Len(last.res.children)

\* addChildren gave up on two children that are each other's parent, after
\* two passes.
C19_Witness ==
    /\ Assembled
    /\ last.res.root = SpanIDOf(1, 1, 0)
    /\ Range(last.res.children) = {SpanIDOf(1, 2, 3), SpanIDOf(1, 3, 2)}
    /\ last.err = "maximum number of retries"
    /\ last.res.tries = 2

\* The records stored under the trace id of the last call, and the roots
\* among them.
TraceRecords == WhereTrace(store, last.id.Trace)
TraceRoots == {q \in TraceRecords : q.tags.parent_id = zeroID}

\* C8: Trace fails with "unexpected multiple root spans" when two or more
\* of the records stored under the trace id have the zero parent id.
C8_MultipleRootsFail ==
    (last.op = "Trace" /\ Cardinality(TraceRoots) >= 2) =>
        last.err = "unexpected multiple root spans"

\* Trace failed on a trace with two roots and a child.
C8_Witness ==
    /\ last.op = "Trace"
    /\ Cardinality(TraceRoots) = 2
    /\ Cardinality(TraceRecords) = 3
    /\ last.err = "unexpected multiple root spans"

\* C9 as stated: Trace fails with "trace not found" when none of the records
\* stored under the trace id has the zero parent id.
C9_NotFoundWithoutRoot ==
    (last.op = "Trace" /\ TraceRoots = {}) => last.err = "trace not found"

----------------------------------------------------------------------------
(* Claims about what Trace and Traces return.                              *)

SpansOf(pts) == {IDOfTags(q.tags) : q \in pts}

\* The trace ids of the roots stored.
RootTraces == {id.Trace : id \in SpansOf(WhereRoots(store))}

\* The records the queries of the last call returned: for Trace those of
\* its trace id, for Traces the roots and the children of the roots' traces.
Fetched ==
    IF last.op = "Trace" THEN SpansOf(TraceRecords)
    ELSE SpansOf(WhereRoots(store) \cup WhereChildren(store, RootTraces))

\* The span id is a node of the tree.
InTree(tree, id) ==
    \/ id = tree.root
    \/ \E n \in DOMAIN tree.sub : id \in Range(tree.sub[n])

\* C11: when Trace or Traces returns an error (a row that does not decode
\* after others did, a duplicate root, or the maximum number of retries after
\* some children were attached) the trace or trace list it returns is nil,
\* and when it returns no error every record its queries fetched is a node
\* of a returned tree.
C11_NoPartialResult ==
    last.op \in {"Trace", "Traces"} =>
        /\ last.err # "" => last.ret = NilTraces
        /\ last.err = "" =>
               /\ ~last.ret.nil
               /\ \A id \in Fetched :
                      \E i \in 1..Len(last.ret.traces) : InTree(last.ret.traces[i], id)

\* Traces decoded the roots of two traces and failed to decode the row of a
\* child, and returned nil.
C11_Witness ==
    /\ last.op = "Traces"
    /\ last.err = "unexpected field type"
    /\ Cardinality(DOMAIN last.res.anns) = 2
    /\ last.ret.nil

\* Two of the roots stored have the same trace id.
SharedRootTrace ==
    \E a, b \in SpansOf(WhereRoots(store)) : a # b /\ a.Trace = b.Trace

\* C14: Traces fails with "duplicated root span" when two of the root
\* records of its first query have the same trace id, and returns no trace
\* list.
C14_DuplicateRootFails ==
    (last.op = "Traces" /\ SharedRootTrace) =>
        /\ last.err = "duplicated root span"
        /\ last.ret = NilTraces

\* Traces failed on two roots of trace 1 stored next to a root of trace 2.
C14_Witness ==
    /\ last.op = "Traces"
    /\ SharedRootTrace
    /\ RootTraces = {1, 2}
    /\ last.err = "duplicated root span"

\* A returned tree with the annotations of its spans: the root span, the Sub
\* slice of every node, and what each span carries.
SpanTree(tree, anns) ==
    [root |-> tree.root, sub |-> tree.sub,
     anns |-> [n \in DOMAIN tree.sub |-> anns[n]]]

\* The trees Trace(id) can return without an error on the store st, one for
\* each order in which its query can return the series.
TraceTrees(st, id) ==
    LET calls == {TraceOf(TraceSeries(st, order)) : order \in TraceOrders(st, id)}
    IN  {SpanTree(TreeOf(t.res.root, t.res.sub), t.res.anns) :
            t \in {c \in calls : c.err = ""}}

\* The pages Traces can return without an error when its first query
\* returns the root series in the order rootOrder: the trees of the page,
\* each with the annotations of its spans, and the children lists the second
\* loop read for them.
PagesOf(st, rootOrder) ==
    LET roots == rootsLoop(RootSeries(st, rootOrder), 1, <<>>, <<>>)
        reads == {childrenLoop(ChildrenSeries(st, childOrder), 1,
                               roots.tracesCache, <<>>, roots.anns) :
                     childOrder \in Orders(SeriesTags(
                         WhereChildren(st, DOMAIN roots.tracesCache)))}
        pages(read) ==
            {[a |-> attachLoop(order, 1, roots.tracesCache, read.children, <<>>),
              read |-> read] : order \in Orders(DOMAIN roots.tracesCache)}
    IN  IF Len(rootOrder) = 0 \/ roots.err # "" THEN {}
        ELSE {[trees |-> {SpanTree(pg.a.traces[i], pg.read.anns) :
                             i \in 1..Len(pg.a.traces)},
               children |-> pg.read.children] :
                 pg \in {x \in UNION {pages(read) : read \in {r \in reads : r.err = ""}} :
                            x.a.err = ""}}

\* The trace lists Traces can return without an error on the store st.
TracesPages(st) ==
    UNION {PagesOf(st, rootOrder) : rootOrder \in Orders(SeriesTags(WhereRoots(st)))}

\* The two trees have the same root and every node has the same children in
\* both, the order of the Sub slices apart.
SameStructure(t1, t2) ==
    /\ t1.root = t2.root
    /\ DOMAIN t1.sub = DOMAIN t2.sub
    /\ \A n \in DOMAIN t1.sub :
           /\ Range(t1.sub[n]) = Range(t2.sub[n])
           /\ Len(t1.sub[n]) = Len(t2.sub[n])

\* The children list the second loop of Traces read for the trace id.
ChildrenRead(pg, id) ==
    IF id \in DOMAIN pg.children THEN pg.children[id] ELSE <<>>

\* The trees the last call returned, each with the annotations of its spans.
ReturnedTrees ==
    {SpanTree(last.ret.traces[i], last.res.anns) : i \in 1..Len(last.ret.traces)}

\* C21: on a store on which Traces and Trace(id) both succeed, every tree
\* Traces returns is a tree Trace(id) returns for its trace id; whatever the
\* order in which the query of Trace returns the records, its tree has the
\* same root span and the same annotations on every span, and, no two
\* records of the trace having the same span id, the same children under
\* every node; and the tree Trace(id) returns is the tree of that trace in
\* every page Traces returns after reading the children in the same order,
\* Sub slices included.
C21_PageTreeIsTraceTree ==
    /\ (last.op = "Traces" /\ last.err = "") =>
           \A tr \in ReturnedTrees :
               LET single == TraceTrees(store, tr.root.Trace)
               IN  single # {} =>
                       /\ tr \in single
                       /\ \A t \in single :
                              /\ t.root = tr.root
                              /\ t.anns = tr.anns
                              /\ DistinctSpans(tr.root, ByRank(DOMAIN tr.sub)) =>
                                     SameStructure(t, tr)
    /\ (last.op = "Trace" /\ last.err = "") =>
           LET pages == {pg \in TracesPages(store) :
                            ChildrenRead(pg, last.id.Trace) = last.res.children}
           IN  /\ TracesPages(store) # {} => pages # {}
               /\ \A pg \in pages : \A tr \in ReturnedTrees : tr \in pg.trees

\* Traces returned a tree in which the record with parent id 2 is under the
\* deeper of the two records with span id 2, where Trace can also return it
\* under the other, and whose root carries an annotation.
C21_Witness ==
    /\ last.op = "Traces" /\ last.err = ""
    /\ \E tr \in ReturnedTrees :
           /\ SpanIDOf(1, 2, 3) \in DOMAIN tr.sub
           /\ tr.sub[SpanIDOf(1, 2, 3)] = <<SpanIDOf(1, 1, 2)>>
           /\ \E i \in 1..Len(tr.anns[tr.root]) :
                  tr.anns[tr.root][i] = Ann(<<"k">>, <<"v1">>)
           /\ \E t \in TraceTrees(store, 1) :
                  /\ SpanIDOf(1, 2, 1) \in DOMAIN t.sub
                  /\ t.sub[SpanIDOf(1, 2, 1)] = <<SpanIDOf(1, 1, 2)>>

----------------------------------------------------------------------------
(* Claims about calls of Collect that run side by side.                    *)

\* Both calls have returned.
RaceDone == \A i \in Procs : inflight.proc[i].pc = "done"

\* The stores that Collect(c.id, c.anns), run alone at time t, can leave of
\* the store st.
SeqCollect(st, c, t) ==
    LET r == findSpanPoint(st, c.id)
    IN  IF ~WritesAfter(r) THEN {st}
        ELSE {Write(st, CollectPoint(r.p, c.id, c.anns, t, schemas)) :
                 schemas \in CollectSchemas(r.p, c.anns)}

\* The stores that call c1 followed by call c2 can leave of the store st.
Sequential(st, c1, c2, t) ==
    UNION {SeqCollect(s, c2, t + 1) : s \in SeqCollect(st, c1, t)}

\* The stores the two calls can leave of the store they started on when one
\* runs after the other, in both orders.
BothOrders ==
    Sequential(inflight.base, inflight.proc[1], inflight.proc[2], now)
        \cup Sequential(inflight.base, inflight.proc[2], inflight.proc[1], now)

\* A point without its time, its manifest as the set of schemas listed.
NoTime(q) ==
    [tags |-> q.tags,
     fields |-> [k \in (DOMAIN q.fields) \ {schemasFieldName} |-> q.fields[k]],
     schemas |-> ManifestSchemas(q.fields[schemasFieldName])]

\* Two stores hold the same points, the times of the points apart.
SameUpToTime(st1, st2) ==
    /\ {NoTime(q) : q \in st1} = {NoTime(q) : q \in st2}
    /\ \A q \in st1 :
           Cardinality({x \in st1 : NoTime(x) = NoTime(q)})
               = Cardinality({x \in st2 : NoTime(x) = NoTime(q)})

\* C12: when two calls of Collect for different SpanIDs have run side by
\* side, whatever the interleaving of their lookups and writes, the store
\* holds what it holds after the two calls run one after the other, in
\* either order (the times of the points and the order of a manifest apart).
C12_DifferentSpansIndependent ==
    (RaceDone /\ inflight.proc[1].id # inflight.proc[2].id) =>
        \A s \in BothOrders : SameUpToTime(store, s)

\* Both calls looked up before either wrote, for different spans, one of
\* them stored before, and both with annotations.
C12_Witness ==
    /\ RaceDone
    /\ inflight.proc[1].id # inflight.proc[2].id
    /\ inflight.steps = <<<<1, "lookup">>, <<2, "lookup">>, <<2, "write">>, <<1, "write">>>>
    /\ inflight.proc[1].p.found
    /\ inflight.proc[1].anns # <<>> /\ inflight.proc[2].anns # <<>>
    /\ inflight.proc[1].anns # inflight.proc[2].anns

\* Both calls looked up before either wrote.
LookupsFirst ==
    /\ Len(inflight.steps) = 4
    /\ inflight.steps[1][2] = "lookup"
    /\ inflight.steps[2][2] = "lookup"

\* The schemas call i submitted.
Submitted(i) == ManifestSchemas(schemasFromAnnotations(inflight.proc[i].anns))

\* The calls are for a span that was not stored, or the call that wrote
\* first submitted a schema that neither the stored manifest nor the other
\* call lists.
Conflict ==
    \/ PointsOf(inflight.base, inflight.proc[1].id) = {}
    \/ ~(Submitted(inflight.steps[3][1]) \subseteq
            StoredSchemas(inflight.base, inflight.proc[1].id)
                \cup Submitted(inflight.steps[4][1]))

\* C13: two calls of Collect for the same SpanID that both look up before
\* either writes lose an update: when the span was not stored, or the first
\* writer submitted a schema of its own, the store they leave differs from
\* what both sequential orders of the two calls leave.
C13_LostUpdate ==
    (/\ RaceDone
     /\ inflight.proc[1].id = inflight.proc[2].id
     /\ LookupsFirst
     /\ Conflict) =>
        \A s \in BothOrders : ~SameUpToTime(store, s)

\* Two calls for a stored span interleaved; the manifest stored lacks the
\* schema HTTPClient that the first writer submitted.
C13_Witness ==
    /\ RaceDone
    /\ inflight.proc[1].id = inflight.proc[2].id
    /\ LookupsFirst
    /\ PointsOf(inflight.base, inflight.proc[1].id) # {}
    /\ <<"HTTPClient">> \in Submitted(inflight.steps[3][1])
    /\ <<"HTTPClient">> \notin StoredSchemas(store, inflight.proc[1].id)
    /\ \A s \in BothOrders : ~SameUpToTime(store, s)

----------------------------------------------------------------------------
(* Claims about a lookup that fails.                                       *)

\* The series the lookup of Collect for id finds in st.
LookupSeries(st, id) == SeriesTags(WhereSpan(st, id))

\* The first point of the one series found for id has a field that is a
\* number.
NumberFound(st, id) ==
    /\ Cardinality(LookupSeries(st, id)) = 1
    /\ \E tags \in LookupSeries(st, id) :
           \E i \in 1..Len(Row(st, tags).Values[1]) :
               IsNumber(Row(st, tags).Values[1][i])

\* A call of Collect returns "unexpected multiple series" when its lookup
\* finds more than one series, "unexpected field type" when the point found
\* has a field that is neither string nor null, or the error of a query that
\* failed; and a call that returns an error hands no point to Write and
\* leaves the store as it was.
C15_Step ==
    last'.op = "Collect" =>
        /\ Cardinality(LookupSeries(store, last'.id)) > 1 =>
               last'.err \in {"unexpected multiple series", "query failed"}
        /\ NumberFound(store, last'.id) =>
               last'.err \in {"unexpected field type", "query failed"}
        /\ last'.err # "" => (store' = store /\ ~last'.written.wrote)

\* C15: when the lookup of Collect fails (the query fails, more than one
\* series matches the triple, or a stored field is neither string nor null)
\* Collect returns that error and writes nothing: the store is unchanged.
C15_FailedLookupWritesNothing == [][C15_Step]_vars

\* Collect found two series for its triple and returned the error, the
\* store holding the points of both.
C15_Witness ==
    /\ last.op = "Collect"
    /\ last.err = "unexpected multiple series"
    /\ Cardinality(LookupSeries(store, last.id)) = 2
    /\ ~last.written.wrote

----------------------------------------------------------------------------
(* Claims about decoding.                                                  *)

\* The annotations decoded from the series of the stored point q.
Decoded(q) == annotationsFromRow(Row(store, q.tags)).anns

Keys(anns) == {anns[i].Key : i \in 1..Len(anns)}

\* C10: of the annotations decoded from a stored record filterSchemas keeps
\* a schema-prefixed one exactly when its key without the prefix is listed in
\* the record's manifest, split on the separator, and keeps every other one;
\* a record whose manifest lists HTTPClient alone keeps no HTTPServer marker.
C10_FilterByManifest ==
    \A q \in store :
        LET decoded == Decoded(q)
            kept == filterSchemas(decoded)
            listed == Range(Split(q.fields[schemasFieldName], schemasFieldSeparator))
        IN  /\ Range(kept) \subseteq Range(decoded)
            /\ \A a \in Range(decoded) :
                   IF HasPrefix(a.Key, schemaPrefix)
                   THEN a \in Range(kept) <=> TrimPrefix(a.Key, schemaPrefix) \in listed
                   ELSE a \in Range(kept)
            /\ ManifestSchemas(q.fields[schemasFieldName]) = {<<"HTTPClient">>} =>
                   SchemaKey("HTTPServer") \notin Keys(kept)

\* A record whose manifest lists HTTPClient alone is read with an empty
\* HTTPServer marker, which another record put among the columns.
C10_Witness ==
    \E q \in store :
        /\ ManifestSchemas(q.fields[schemasFieldName]) = {<<"HTTPClient">>}
        /\ Ann(SchemaKey("HTTPServer"), <<>>) \in Range(Decoded(q))
        /\ SchemaKey("HTTPClient") \in Keys(filterSchemas(Decoded(q)))
        /\ SchemaKey("HTTPServer") \notin Keys(filterSchemas(Decoded(q)))

\* The columns of the row of q in which q has no value.
NullColumns(q) ==
    LET r == Row(store, q.tags)
    IN  {r.Columns[i] : i \in {j \in 1..Len(r.Columns) : r.Values[1][j] = NULL}}

\* C20 as stated: the annotations decoded from a stored record, as
\* filterSchemas hands them on, hold no annotation for a column in which the
\* record has no value.
C20_NullColumnsSkipped ==
    \A q \in store : NullColumns(q) \cap Keys(filterSchemas(Decoded(q))) = {}

\* C20 as amended: annotationsFromRow decodes every column of a stored
\* record, a column in which the record has no value as an annotation with
\* an empty value; filterSchemas then drops such an annotation when its key
\* has the schema prefix (the manifest of the record does not list it) and
\* keeps it otherwise.
C20_NullColumnsDecodedEmpty ==
    \A q \in store :
        LET r == Row(store, q.tags)
            decoded == annotationsFromRow(r)
            kept == filterSchemas(decoded.anns)
        IN  /\ decoded.err = ""
            /\ Len(decoded.anns) = Len(r.Columns)
            /\ \A i \in 1..Len(r.Columns) :
                   r.Values[1][i] = NULL =>
                       /\ decoded.anns[i] = Ann(r.Columns[i], <<>>)
                       /\ IF HasPrefix(r.Columns[i], schemaPrefix)
                          THEN r.Columns[i] \notin Keys(kept)
                          ELSE Ann(r.Columns[i], <<>>) \in Range(kept)

\* A record without a value for k is decoded with an empty annotation k,
\* because another record put k among the columns.
C20_Witness ==
    \E q \in store :
        /\ <<"k">> \in NullColumns(q)
        /\ SchemaKey("HTTPClient") \in NullColumns(q)
        /\ Ann(<<"k">>, <<>>) \in Range(filterSchemas(Decoded(q)))
        /\ SchemaKey("HTTPClient") \notin Keys(filterSchemas(Decoded(q)))

====
